---- MODULE Spec2Model ----
(***************************************************************************)
(* Model of task_tools/todoist_wrapper.py: the module-level configuration  *)
(* (configure_todoist, get_label_by_duration) and the TodoistTask content  *)
(* parser (raw_content setter, parse_short_duration, parse_time_period,    *)
(* parse_links, get_content, process_links); and of                        *)
(* task_tools/toggl_wrapper.py: configure_toggl, TimeEntry and the cache   *)
(* of TogglWrapper.get_time_tracker.                                       *)
(*                                                                         *)
(* A Python str is a sequence of one-character strings.  An optional       *)
(* value (a Python value that may be None) is a sequence of length 0 or 1: *)
(* None is <<>> and the value x is <<x>>.  A datetime.time is <<hour,      *)
(* minute>>.  A dict is the sequence of its items in insertion order.      *)
(***************************************************************************)
EXTENDS Integers, Sequences, FiniteSets, TLC

None == <<>>
Some(x) == <<x>>

(***************************************************************************)
(* str helpers                                                             *)
(***************************************************************************)
Digit == {"0", "1", "2", "3", "4", "5", "6", "7", "8", "9"}

DigitValue(c) ==
    CASE c = "0" -> 0 [] c = "1" -> 1 [] c = "2" -> 2 [] c = "3" -> 3
      [] c = "4" -> 4 [] c = "5" -> 5 [] c = "6" -> 6 [] c = "7" -> 7
      [] c = "8" -> 8 [] c = "9" -> 9

\* the characters str.strip() removes that occur in the modelled titles
Whitespace == {" "}

CharAt(s, i, c) == i >= 1 /\ i <= Len(s) /\ s[i] = c

IsDigitAt(s, i) == i >= 1 /\ i <= Len(s) /\ s[i] \in Digit

\* s[i:].startswith(sub), 1-based
StartsAt(s, sub, i) ==
    i >= 1 /\ i + Len(sub) - 1 <= Len(s) /\ SubSeq(s, i, i + Len(sub) - 1) = sub

\* the least and the greatest member of a non-empty set of indices
Least(S) == CHOOSE j \in S : \A k \in S : j <= k

Greatest(S) == CHOOSE j \in S : \A k \in S : j >= k

\* str.strip(): the text from its first to its last non-whitespace character
strip(s) ==
    LET S == {j \in 1..Len(s) : s[j] \notin Whitespace}
    IN  IF S = {} THEN <<>> ELSE SubSeq(s, Least(S), Greatest(S))

\* str.find(sub, i): the least index >= i where sub occurs, 0 when there is none
find(s, sub, i) ==
    LET S == {j \in i..(Len(s) - Len(sub) + 1) : StartsAt(s, sub, j)}
    IN  IF S = {} THEN 0 ELSE Least(S)

\* sub in s
Contains(s, sub) == find(s, sub, 1) # 0

\* the least index >= i holding character c, 0 when there is none
IndexOf(s, c, i) ==
    LET S == {j \in i..Len(s) : s[j] = c}
    IN  IF S = {} THEN 0 ELSE Least(S)

\* str.replace(old, new) for a non-empty old: every non-overlapping
\* occurrence, leftmost first; i is where the first occurrence starts
RECURSIVE replace(_, _, _)
ReplaceAt(s, old, new, i) ==
    IF i = 0 THEN s
    ELSE SubSeq(s, 1, i - 1) \o new
             \o replace(SubSeq(s, i + Len(old), Len(s)), old, new)

replace(s, old, new) == ReplaceAt(s, old, new, find(s, old, 1))

\* f'[{text}]({url})'
get_todoist_link(text, url) == <<"[">> \o text \o <<"]", "(">> \o url \o <<")">>

(***************************************************************************)
(* parse_short_duration                                                    *)
(***************************************************************************)
\* \d+ : the index after the longest run of digits that starts at i
RECURSIVE DigitsEnd(_, _)
DigitsEnd(s, i) == IF IsDigitAt(s, i) THEN DigitsEnd(s, i + 1) ELSE i

\* \+? : the index after an optional plus at e
PlusEnd(s, e) == IF CharAt(s, e, "+") THEN e + 1 ELSE e

\* \) at p closes the match, whose group is the text between the parentheses
ShortDurationGroup(content, p) ==
    IF CharAt(content, p, ")") THEN <<SubSeq(content, 2, p - 1)>> ELSE <<>>

\* the pattern without its anchor to the start of the string: the marker is
\* also found after leading whitespace
ShortDurationFindall_unanchored(content) ==
    IF CharAt(strip(content), 1, "(") /\ IsDigitAt(strip(content), 2)
    THEN ShortDurationGroup(strip(content),
                            PlusEnd(strip(content), DigitsEnd(strip(content), 2)))
    ELSE <<>>

\* re.findall(r'^\((\d+\+?)\)', content): <<>> or <<the captured group>>
ShortDurationFindall(content) ==
    IF CharAt(content, 1, "(") /\ IsDigitAt(content, 2)
    THEN ShortDurationGroup(content, PlusEnd(content, DigitsEnd(content, 2)))
    ELSE <<>>

\* the plus of d is not escaped, so that a group with a plus is a pattern the
\* literal prefix does not match: the marker stays
ShortDurationSub_unescaped(d, content) ==
    IF d[Len(d)] # "+" /\ StartsAt(content, <<"(">> \o d \o <<")">>, 1)
    THEN SubSeq(content, Len(d) + 3, Len(content))
    ELSE content

\* re.sub(fr'^\({d}\)', '', content) with the plus of d escaped: the literal
\* prefix "(" d ")" is removed when the text starts with it
ShortDurationSub(d, content) ==
    IF StartsAt(content, <<"(">> \o d \o <<")">>, 1)
    THEN SubSeq(content, Len(d) + 3, Len(content))
    ELSE content

\* lines 243-248, d being the result of findall: the new __short_duration and
\* the returned text
ShortDurationResult(content, d) ==
    IF d # <<>>
    THEN [short_duration |-> Some(d[1]),
          content |-> strip(ShortDurationSub(d[1], content))]
    ELSE [short_duration |-> None, content |-> strip(content)]

parse_short_duration(content) ==
    ShortDurationResult(content, ShortDurationFindall(content))

(***************************************************************************)
(* parse_time_period                                                       *)
(***************************************************************************)
\* length of the match of \d{1,2}: at i (hour digits and the colon), 0 if none
HourColonLen(s, i) ==
    IF IsDigitAt(s, i) /\ IsDigitAt(s, i + 1) /\ CharAt(s, i + 2, ":") THEN 3
    ELSE IF IsDigitAt(s, i) /\ CharAt(s, i + 1, ":") THEN 2
    ELSE 0

\* \d{2} after an hour and colon of length h at i: the length of the clock text
MinuteLen(s, i, h) ==
    IF h # 0 /\ IsDigitAt(s, i + h) /\ IsDigitAt(s, i + h + 1) THEN h + 2 ELSE 0

\* length of the match of \d{1,2}:\d{2} at i, 0 if none
ClockLen(s, i) == MinuteLen(s, i, HourColonLen(s, i))

\* the length of two clock texts of lengths a and b joined by a hyphen
JoinedLen(a, b) == IF b # 0 THEN a + 1 + b ELSE 0

\* -\d{1,2}:\d{2} after a clock text of length a at i
SecondClockLen(s, i, a) ==
    IF a # 0 /\ CharAt(s, i + a, "-") THEN JoinedLen(a, ClockLen(s, i + a + 1)) ELSE 0

\* length of the match of \d{1,2}:\d{2}-\d{1,2}:\d{2} at i, 0 if none
TimePeriodLen(s, i) == SecondClockLen(s, i, ClockLen(s, i))

\* the start of the leftmost match at or after i, 0 if none
TimePeriodSearch(s, i) ==
    LET S == {j \in i..Len(s) : TimePeriodLen(s, j) # 0}
    IN  IF S = {} THEN 0 ELSE Least(S)

\* the text of the match that starts at i, as an optional (None for i = 0)
TimePeriodAt(content, i) ==
    IF i = 0 THEN None
    ELSE Some(SubSeq(content, i, i + TimePeriodLen(content, i) - 1))

\* result[0] of re.findall(r'\d{1,2}:\d{2}-\d{1,2}:\d{2}', content), as an
\* optional
TimePeriodFirst(content) == TimePeriodAt(content, TimePeriodSearch(content, 1))

\* the value of a run of one or two digits
Number(ds) ==
    IF Len(ds) = 1 THEN DigitValue(ds[1])
    ELSE 10 * DigitValue(ds[1]) + DigitValue(ds[2])

\* the time of day h:m, or None when it is not on the 24-hour clock
ClockTime(h, m) == IF h <= 23 /\ m <= 59 THEN Some(<<h, m>>) ELSE None

\* strptime on a text whose colon is at index c
StrptimeAt(str, c) ==
    ClockTime(Number(SubSeq(str, 1, c - 1)), Number(SubSeq(str, c + 1, Len(str))))

\* dt.datetime.strptime(str, '%H:%M').time() for a text of the shape
\* \d{1,2}:\d{2}: the time, or None when strptime raises ValueError
strptime(str) == StrptimeAt(str, IndexOf(str, ":", 1))

\* a time period that is not on the clock is skipped silently
TimePeriodParsed_skips(content, st, et, match, t1, t2) ==
    IF t1 = None \/ t2 = None
    THEN [raised |-> FALSE, start_time |-> st, end_time |-> et,
          content |-> strip(content)]
    ELSE [raised |-> FALSE, start_time |-> t1, end_time |-> t2,
          content |-> strip(replace(content, match, <<>>))]

\* lines 254-257, t1 and t2 being the results of the two strptime calls: the
\* first failure raises before __start_time is written, the second after
TimePeriodParsed(content, st, et, match, t1, t2) ==
    IF t1 = None
    THEN [raised |-> TRUE, start_time |-> st, end_time |-> et, content |-> content]
    ELSE IF t2 = None
    THEN [raised |-> TRUE, start_time |-> t1, end_time |-> et, content |-> content]
    ELSE [raised |-> FALSE, start_time |-> t1, end_time |-> t2,
          content |-> strip(replace(content, match, <<>>))]

\* line 253: result[0].split('-'), the hyphen of the match being at dash
TimePeriodSplit(content, st, et, match, dash) ==
    TimePeriodParsed(content, st, et, match,
                     strptime(SubSeq(match, 1, dash - 1)),
                     strptime(SubSeq(match, dash + 1, Len(match))))

\* lines 252-257, result being the optional result[0]
TimePeriodResult(content, st, et, result) ==
    IF result # <<>>
    THEN TimePeriodSplit(content, st, et, result[1], IndexOf(result[1], "-", 1))
    ELSE [raised |-> FALSE, start_time |-> st, end_time |-> et,
          content |-> strip(content)]

\* parse_time_period on a task whose fields are start_time st and end_time et:
\* whether it raised, the fields afterwards and the returned text
parse_time_period(content, st, et) ==
    TimePeriodResult(content, st, et, TimePeriodFirst(content))

(***************************************************************************)
(* parse_links, get_content                                                *)
(***************************************************************************)
\* [s]* : the index after the longest run of "s" that starts at i
RECURSIVE SRunEnd(_, _)
SRunEnd(s, i) == IF CharAt(s, i, "s") THEN SRunEnd(s, i + 1) ELSE i

NoLink == [ok |-> FALSE, last |-> 0, text |-> <<>>, url |-> <<>>]

\* ([^)]+)\) : the url runs from after "(" to before the first ")" at close,
\* which is at or after u + 1
LinkUrl(s, i, j, u, close) ==
    IF close = 0 \/ close = u THEN NoLink
    ELSE [ok |-> TRUE, last |-> close,
          text |-> SubSeq(s, i + 1, j - 1), url |-> SubSeq(s, j + 2, close - 1)]

\* :// at k, after http and the run of "s"
LinkScheme(s, i, j, k) ==
    IF ~StartsAt(s, <<":", "/", "/">>, k) THEN NoLink
    ELSE LinkUrl(s, i, j, k + 3, IndexOf(s, ")", k + 3))

\* ([^]]+)]\(http : the text runs to the first "]", at j, and is not empty
LinkText(s, i, j) ==
    IF j = 0 \/ j = i + 1 \/ ~StartsAt(s, <<"(", "h", "t", "t", "p">>, j + 1) THEN NoLink
    ELSE LinkScheme(s, i, j, SRunEnd(s, j + 6))

\* the match of r'\[([^]]+)]\((http[s]*://[^)]+)\)' that starts at i
LinkMatchAt(s, i) ==
    IF ~CharAt(s, i, "[") THEN NoLink ELSE LinkText(s, i, IndexOf(s, "]", i + 1))

\* re.findall of the link pattern from index i on: the (text, url) pairs of
\* the non-overlapping matches, leftmost first
RECURSIVE LinksFindall(_, _)
LinksAfter(s, m) == <<<<m.text, m.url>>>> \o LinksFindall(s, m.last + 1)

\* S is the set of indices where a match starts
LinksFrom(s, S) == IF S = {} THEN <<>> ELSE LinksAfter(s, LinkMatchAt(s, Least(S)))

LinksFindall(s, i) == LinksFrom(s, {j \in i..Len(s) : LinkMatchAt(s, j).ok})

\* the loop of parse_links over links[n..]
RECURSIVE LinksToText(_, _, _)
LinksToText(content, lks, n) ==
    IF n > Len(lks) THEN content
    ELSE LinksToText(replace(content, get_todoist_link(lks[n][1], lks[n][2]), lks[n][1]),
                     lks, n + 1)

\* the links are recorded but their markup stays in the text
LinksResult_keeps_markup(content, lks) == [links |-> lks, content |-> strip(content)]

\* lines 261-263, lks being the result of findall
LinksResult(content, lks) ==
    [links |-> lks, content |-> strip(LinksToText(content, lks, 1))]

\* returns the new __links and the returned text
parse_links(content) == LinksResult(content, LinksFindall(content, 1))

\* the loop of get_content over links[n..]
RECURSIVE TextToLinks(_, _, _)
TextToLinks(content, lks, n) ==
    IF n > Len(lks) THEN content
    ELSE TextToLinks(replace(content, lks[n][1], get_todoist_link(lks[n][1], lks[n][2])),
                     lks, n + 1)

\* self.pure_content with every stored link rendered
get_content(self) == TextToLinks(self.pure_content, self.links, 1)

(***************************************************************************)
(* Inputs                                                                  *)
(***************************************************************************)
\* ""
TitleEmpty ==
    <<>>

\* "Plain task"
TitlePlain ==
    <<"P", "l", "a", "i", "n", " ", "t", "a", "s", "k">>

\* "a b"
TitleAB ==
    <<"a", " ", "b">>

\* "(15) a"
TitleShort ==
    <<"(", "1", "5", ")", " ", "a">>

\* "(30+) Long task"
TitleShortPlus ==
    <<"(", "3", "0", "+", ")", " ", "L", "o", "n", "g", " ", "t",
    "a", "s", "k">>

\* " (15) a "
TitleSpaceShort ==
    <<" ", "(", "1", "5", ")", " ", "a", " ">>

\* "a (15)"
TitleLateShort ==
    <<"a", " ", "(", "1", "5", ")">>

\* "9:00-10:00 a"
TitleTime ==
    <<"9", ":", "0", "0", "-", "1", "0", ":", "0", "0", " ", "a">>

\* "b 23:59-0:00"
TitleTimeLate ==
    <<"b", " ", "2", "3", ":", "5", "9", "-", "0", ":", "0", "0">>

\* "a 99:99-10:00"
TitleBadFirst ==
    <<"a", " ", "9", "9", ":", "9", "9", "-", "1", "0", ":", "0",
    "0">>

\* "a 10:00-10:60"
TitleBadSecond ==
    <<"a", " ", "1", "0", ":", "0", "0", "-", "1", "0", ":", "6",
    "0">>

\* "(5) 24:00-1:00 b"
TitleBadHour ==
    <<"(", "5", ")", " ", "2", "4", ":", "0", "0", "-", "1", ":",
    "0", "0", " ", "b">>

\* "(15) Write report 09:00-10:00 see [spec](https://example.com/s)"
TitleReport ==
    <<"(", "1", "5", ")", " ", "W", "r", "i", "t", "e", " ", "r",
    "e", "p", "o", "r", "t", " ", "0", "9", ":", "0", "0", "-",
    "1", "0", ":", "0", "0", " ", "s", "e", "e", " ", "[", "s",
    "p", "e", "c", "]", "(", "h", "t", "t", "p", "s", ":", "/",
    "/", "e", "x", "a", "m", "p", "l", "e", ".", "c", "o", "m",
    "/", "s", ")">>

\* "see [a](http://x)"
TitleLink ==
    <<"s", "e", "e", " ", "[", "a", "]", "(", "h", "t", "t", "p",
    ":", "/", "/", "x", ")">>

\* "[a](http://b) [b](http://c)"
TitleLinkInUrl ==
    <<"[", "a", "]", "(", "h", "t", "t", "p", ":", "/", "/", "b",
    ")", " ", "[", "b", "]", "(", "h", "t", "t", "p", ":", "/",
    "/", "c", ")">>

\* "[a](http://x) [a](http://y)"
TitleSameAnchor ==
    <<"[", "a", "]", "(", "h", "t", "t", "p", ":", "/", "/", "x",
    ")", " ", "[", "a", "]", "(", "h", "t", "t", "p", ":", "/",
    "/", "y", ")">>

\* "[a](ftp://x) 1:00"
TitleNotLink ==
    <<"[", "a", "]", "(", "f", "t", "p", ":", "/", "/", "x", ")",
    " ", "1", ":", "0", "0">>

\* "Check email [01-Jan-2022 10:00 Daw, John Test email EML#105700000]"
TitleEmail ==
    <<"C", "h", "e", "c", "k", " ", "e", "m", "a", "i", "l", " ",
    "[", "0", "1", "-", "J", "a", "n", "-", "2", "0", "2", "2",
    " ", "1", "0", ":", "0", "0", " ", "D", "a", "w", ",", " ",
    "J", "o", "h", "n", " ", "T", "e", "s", "t", " ", "e", "m",
    "a", "i", "l", " ", "E", "M", "L", "#", "1", "0", "5", "7",
    "0", "0", "0", "0", "0", "]">>

\* "(15)(15) a"
TitleTwoMarkers ==
    <<"(", "1", "5", ")", "(", "1", "5", ")", " ", "a">>

\* "(30+) b (30+)"
TitlePlusAgain ==
    <<"(", "3", "0", "+", ")", " ", "b", " ", "(", "3", "0", "+",
    ")">>

\* "9:00-10:00 x 9:00-10:00"
TitleSamePeriods ==
    <<"9", ":", "0", "0", "-", "1", "0", ":", "0", "0", " ", "x",
    " ", "9", ":", "0", "0", "-", "1", "0", ":", "0", "0">>

\* "9:00-10:00 x 11:00-12:00"
TitleTwoPeriods ==
    <<"9", ":", "0", "0", "-", "1", "0", ":", "0", "0", " ", "x",
    " ", "1", "1", ":", "0", "0", "-", "1", "2", ":", "0", "0">>

\* "[[a](http://x)](http://y)"
TitleNested ==
    <<"[", "[", "a", "]", "(", "h", "t", "t", "p", ":", "/", "/",
    "x", ")", "]", "(", "h", "t", "t", "p", ":", "/", "/", "y",
    ")">>

\* "[a](httpss://x)"
TitleHttpss ==
    <<"[", "a", "]", "(", "h", "t", "t", "p", "s", "s", ":", "/",
    "/", "x", ")">>

\* "[a](http://x) [p[a](http://x)"
TitleLinkInAnchor ==
    <<"[", "a", "]", "(", "h", "t", "t", "p", ":", "/", "/", "x",
    ")", " ", "[", "p", "[", "a", "]", "(", "h", "t", "t", "p",
    ":", "/", "/", "x", ")">>

\* "[a](http://x) [a](http://x)"
TitleSameLink ==
    <<"[", "a", "]", "(", "h", "t", "t", "p", ":", "/", "/", "x",
    ")", " ", "[", "a", "]", "(", "h", "t", "t", "p", ":", "/",
    "/", "x", ")">>

\* "a [a](http://x)"
TitleAnchorTwice ==
    <<"a", " ", "[", "a", "]", "(", "h", "t", "t", "p", ":", "/",
    "/", "x", ")">>

Titles ==
    {TitleEmpty, TitlePlain, TitleAB, TitleShort, TitleShortPlus, TitleSpaceShort,
     TitleLateShort, TitleTime, TitleTimeLate, TitleBadFirst, TitleBadSecond,
     TitleBadHour, TitleReport, TitleLink, TitleLinkInUrl, TitleSameAnchor,
     TitleNotLink, TitleEmail}

\* the titles of the parser's corner cases: repeated markers, repeated time
\* periods, nested, repeated and near-miss links
EdgeTitles ==
    {TitleAB, TitleShortPlus, TitleTimeLate, TitleBadFirst, TitleBadSecond,
     TitleLink, TitleNotLink, TitleTwoMarkers, TitlePlusAgain, TitleSamePeriods, TitleTwoPeriods, TitleNested, TitleHttpss,
     TitleLinkInAnchor, TitleSameLink, TitleAnchorTwice}

\* the titles of the two-task specification
PairTitles == {TitleAB, TitleTime, TitleShort, TitleBadSecond}

\* the titles of the configuration specification
ConfTitles == {TitleAB, TitleShort, TitleTime, TitleBadFirst, TitleLink}

UrlX == <<"h", "t", "t", "p", ":", "/", "/", "x">>
UrlB == <<"h", "t", "t", "p", ":", "/", "/", "b">>
UrlC == <<"h", "t", "t", "p", ":", "/", "/", "c">>

\* link dictionaries for process_links: plain-text key -> url
LinkDicts ==
    {<< <<<<"a">>, UrlX>> >>,
     << <<<<"a">>, UrlB>>, <<<<"b">>, UrlC>> >>}

\* the label lists a Todoist task arrives with
LabelLists == {<<>>, <<"shallow">>, <<"15min", "30min">>}

\* DURATION_LABELS of the test module
TestLabels ==
    << <<"5min", [label |-> "5min", minutes |-> 5]>>,
       <<"15min", [label |-> "15min", minutes |-> 15]>>,
       <<"30min", [label |-> "30min", minutes |-> 30]>>,
       <<"60min", [label |-> "60min", minutes |-> 60]>> >>

\* a table with two entries of the same minutes and keys unlike the names
DupLabels ==
    << <<"q", [label |-> "quick", minutes |-> 15]>>,
       <<"15min", [label |-> "short", minutes |-> 15]>>,
       <<"l", [label |-> "long", minutes |-> 30]>> >>

Tables == {<<>>, TestLabels, DupLabels}

Tokens == {"", "MyToken"}

\* the keyword arguments of configure_todoist
Kwargs ==
    [token : Tokens]
        \cup [token : Tokens, todoist_duration_labels : Tables]
        \cup [token : Tokens, duration_labels : Tables]

\* the arguments of get_label_by_duration
Minutes == {0, 5, 15, 30, 60}

Tasks == {1, 2}

\* process_links calls on a task between two direct assignments
MaxProcess == 1

(***************************************************************************)
(* State                                                                   *)
(***************************************************************************)
VARIABLES
    conf,        \* the module global: None until configure_todoist succeeds
    task,        \* the TodoistTask objects a caller holds, by slot
    toggl_conf,  \* the global conf of toggl_wrapper: None until configure_toggl succeeds
    toggl,       \* the TogglWrapper object a caller holds, and its last call
    now          \* datetime.now(), in seconds

vars == <<conf, task, toggl_conf, toggl, now>>

\* the state of toggl_wrapper and the clock
toggl_vars == <<toggl_conf, toggl, now>>

\* the state of todoist_wrapper
todoist_vars == <<conf, task>>

\* a slot before TodoistTask(...) has returned an object; __init__ line 228
\* sets the parsed fields to None and line 229 the links to []
NoTask ==
    [constructed |-> FALSE, raised |-> FALSE, assigned |-> <<>>, nproc |-> 0,
     label_names |-> <<>>, raw_content |-> <<>>, pure_content |-> <<>>,
     duration |-> None, short_duration |-> None, start_time |-> None,
     end_time |-> None, links |-> <<>>]

(***************************************************************************)
(* Configuration                                                           *)
(***************************************************************************)
\* kwargs.pop(name, default)
Pop(kwargs, name, default) == IF name \in DOMAIN kwargs THEN kwargs[name] ELSE default

\* {key: DurationLabel(**value) for key, value in dl.items()}
DurationLabels(dl) ==
    [i \in 1..Len(dl) |->
        [key |-> dl[i][1], label |-> dl[i][2].label, minutes |-> dl[i][2].minutes]]

\* TodoistConfig(**kwargs): the object, or None when __init__ raises ValueError
TodoistConfig(kwargs) ==
    LET dl == Pop(kwargs, "todoist_duration_labels", <<>>)
    IN  IF kwargs.token = "" THEN None
        ELSE Some([token |-> kwargs.token,
                   duration_labels |-> IF dl # <<>> THEN DurationLabels(dl) ELSE <<>>])

\* configure_todoist(**kwargs): the global is assigned only if the constructor
\* returns
configure_todoist(kwargs) ==
    /\ conf' = IF TodoistConfig(kwargs) = None THEN conf ELSE TodoistConfig(kwargs)
    /\ UNCHANGED <<task, toggl_vars>>

\* get_label_by_duration returning the last matching label instead of the first
get_label_by_duration_last(c, minutes) ==
    LET matching == SelectSeq(c.duration_labels, LAMBDA lbl : lbl.minutes = minutes)
    IN  IF matching # <<>> THEN Some(matching[Len(matching)].label) ELSE None

\* get_label_by_duration(minutes) on a configuration c, as an optional
get_label_by_duration(c, minutes) ==
    LET matching == SelectSeq(c.duration_labels, LAMBDA lbl : lbl.minutes = minutes)
        labels == [i \in 1..Len(matching) |-> matching[i].label]
    IN  IF labels # <<>> THEN Some(labels[1]) ELSE None

(***************************************************************************)
(* TodoistTask                                                             *)
(***************************************************************************)
\* lines 202-203 without the last: __duration keeps the value it had
AfterLinks_keeps_duration(self, pl) ==
    [self EXCEPT !.raised = FALSE, !.links = pl.links, !.pure_content = pl.content]

\* lines 201-203, pl being the result of parse_links
AfterLinks(self, pl) ==
    [self EXCEPT !.raised = FALSE, !.links = pl.links, !.pure_content = pl.content,
                 !.duration = Some(0)]

\* lines 200-203, tp being the result of parse_time_period: when it raised,
\* the setter ends there
AfterTimePeriod(self, tp) ==
    IF tp.raised
    THEN [self EXCEPT !.raised = TRUE, !.start_time = tp.start_time,
                      !.end_time = tp.end_time]
    ELSE AfterLinks([self EXCEPT !.start_time = tp.start_time,
                                 !.end_time = tp.end_time],
                    parse_links(tp.content))

\* the setter storing the text as parse_short_duration returned it
AfterShortDuration_stores_stripped(self, val, sd) ==
    AfterTimePeriod([self EXCEPT !.assigned = val, !.raw_content = sd.content,
                                 !.short_duration = sd.short_duration],
                    parse_time_period(sd.content, self.start_time, self.end_time))

\* lines 198-203, sd being the result of parse_short_duration
AfterShortDuration(self, val, sd) ==
    AfterTimePeriod([self EXCEPT !.assigned = val, !.raw_content = val,
                                 !.short_duration = sd.short_duration],
                    parse_time_period(sd.content, self.start_time, self.end_time))

\* the raw_content setter applied to the object self
raw_content_setter(self, val) == AfterShortDuration(self, val, parse_short_duration(val))

\* the loop of process_links over the items n.. of the dictionary
RECURSIVE LinkItems(_, _, _)
LinkItems(content, lks, n) ==
    IF n > Len(lks) THEN content
    ELSE LinkItems(replace(content, lks[n][1], get_todoist_link(lks[n][1], lks[n][2])),
                   lks, n + 1)

\* what the caller of TodoistTask(...) holds when __init__ ends with obj: no
\* object when the setter raised
Constructed(obj, content) ==
    IF obj.raised
    THEN [NoTask EXCEPT !.raised = TRUE, !.assigned = content]
    ELSE [obj EXCEPT !.constructed = TRUE]

\* TodoistTask(task, tw) for a task with the given content and labels; tw is a
\* TodoistWrapper, whose constructor reads conf.token
Construct(t, content, labels) ==
    /\ conf # None
    /\ ~task[t].constructed
    /\ task' = [task EXCEPT ![t] =
                   Constructed(raw_content_setter([NoTask EXCEPT !.label_names = labels],
                                                  content),
                               content)]
    /\ UNCHANGED <<conf, toggl_vars>>

\* task.raw_content = val
Assign(t, val) ==
    /\ task[t].constructed
    /\ task' = [task EXCEPT ![t] = [raw_content_setter(task[t], val) EXCEPT !.nproc = 0]]
    /\ UNCHANGED <<conf, toggl_vars>>

\* task.process_links(links)
process_links(t, lks) ==
    /\ task[t].constructed
    /\ task[t].nproc < MaxProcess
    /\ task' = [task EXCEPT ![t] =
                   [raw_content_setter(task[t], LinkItems(task[t].raw_content, lks, 1))
                       EXCEPT !.nproc = task[t].nproc + 1]]
    /\ UNCHANGED <<conf, toggl_vars>>

(***************************************************************************)
(* toggl_wrapper: TogglConfig, TimeEntry, TogglWrapper                     *)
(***************************************************************************)
\* date.today(), as a day number
Today == 2

\* the dates a caller passes to get_time_tracker
Days == 1..3

\* the seconds between two readings of the clock
TickSeconds == 150

\* readings of the clock
MaxTicks == 4

\* timedelta(seconds=300)
CacheSeconds == 300

\* the seconds of a day: timedelta.seconds is below it
DaySeconds == 86400

\* the keyword arguments of configure_toggl, workspace_id with its type
TogglKwargs ==
    [token : {"", "MyToken"},
     workspace_id : {[type |-> "int", value |-> 7], [type |-> "str", value |-> 7]}]

\* TogglConfig(**kwargs): the object, or None when __init__ raises ValueError
TogglConfig(kwargs) ==
    IF kwargs.token = "" THEN None
    ELSE IF kwargs.workspace_id.type # "int" THEN None
    ELSE Some([token |-> kwargs.token, workspace_id |-> kwargs.workspace_id.value])

\* configure_toggl(**kwargs): the global is assigned only if the constructor
\* returns
configure_toggl(kwargs) ==
    /\ toggl_conf' = IF TogglConfig(kwargs) = None THEN toggl_conf
                     ELSE TogglConfig(kwargs)
    /\ UNCHANGED <<toggl, now, todoist_vars>>

\* the time entries the Toggl workspace holds for day d, start and end being
\* timestamps <<day, hour, minute, second>>
Tracked(d) ==
    CASE d = 1 -> <<[id |-> 1, start |-> <<1, 10, 0, 0>>, end |-> <<1, 10, 30, 0>>]>>
      [] d = 2 -> <<[id |-> 2, start |-> <<2, 9, 0, 0>>, end |-> <<2, 9, 0, 0>>],
                    [id |-> 3, start |-> <<2, 9, 0, 0>>, end |-> <<2, 9, 2, 30>>]>>
      [] OTHER -> <<[id |-> 4, start |-> <<d, 23, 0, 0>>, end |-> <<d, 23, 1, 30>>]>>

\* det_rep['data'] of Toggl.getDetailedReport for the days since..until
RECURSIVE getDetailedReport(_, _)
getDetailedReport(since, until) ==
    IF since > until THEN <<>>
    ELSE Tracked(since) \o getDetailedReport(since + 1, until)

\* dtu_parse of a timestamp: the datetime, in seconds
dtu_parse(ts) == ((ts[1] * 24 + ts[2]) * 60 + ts[3]) * 60 + ts[4]

\* the seconds field of a timedelta of d seconds, which is normalised to
\* days and 0 <= seconds < 86400
timedelta_seconds(d) == d % DaySeconds

\* round(n / 60): the nearest integer, a tie going to the even one
round_minutes(n) ==
    IF n % 60 < 30 THEN n \div 60
    ELSE IF n % 60 > 30 THEN n \div 60 + 1
    ELSE IF (n \div 60) % 2 = 0 THEN n \div 60
    ELSE n \div 60 + 1

\* TimeEntry(data)
TimeEntry(data) ==
    [id |-> data.id, start |-> data.start, end |-> data.end,
     start_date |-> dtu_parse(data.start), end_date |-> dtu_parse(data.end),
     minutes |-> round_minutes(timedelta_seconds(dtu_parse(data.start)
                                                 - dtu_parse(data.end)))]

\* no TogglWrapper object yet; called holds the arguments of the last
\* get_time_tracker call and returned the list it returned
NoWrapper ==
    [created |-> FALSE, sync_date |-> None, time_entries |-> <<>>,
     called |-> None, returned |-> <<>>]

\* TogglWrapper(): __init__ reads conf.token
TogglWrapper ==
    /\ toggl_conf # None
    /\ ~toggl.created
    /\ toggl' = [NoWrapper EXCEPT !.created = TRUE]
    /\ UNCHANGED <<toggl_conf, now, todoist_vars>>

\* [return_class(t) for t in det_rep['data']]
TimeEntries(data) == [i \in 1..Len(data) |-> TimeEntry(data[i])]

\* __load_detailed_report and line 68 on the object self
load_detailed_report(self, start_date, end_date) ==
    [self EXCEPT !.sync_date = Some(now),
                 !.time_entries = TimeEntries(getDetailedReport(start_date, end_date))]

\* line 66: the end date, no earlier than the start date
ClampedEnd(start_date, end_date) ==
    IF end_date # None /\ end_date[1] >= start_date THEN end_date[1] ELSE start_date

\* line 65: the start date, today by default
DefaultStart(start_date) == IF start_date # None THEN start_date[1] ELSE Today

\* lines 65-68 with the start date settled
LoadFrom(self, start_date, end_date) ==
    load_detailed_report(self, start_date, ClampedEnd(start_date, end_date))

\* line 64: nothing was loaded yet, or more than 300 seconds ago
Expired(self) ==
    self.sync_date = None \/ self.sync_date[1] + CacheSeconds < now

\* line 69 on the object self after lines 64-68
Returned(self, start_date, end_date) ==
    [self EXCEPT !.called = Some(<<start_date, end_date>>),
                 !.returned = self.time_entries]

\* wrapper.get_time_tracker(start_date, end_date), the dates being optional
get_time_tracker(start_date, end_date) ==
    /\ toggl.created
    /\ toggl' = Returned(IF Expired(toggl)
                         THEN LoadFrom(toggl, DefaultStart(start_date), end_date)
                         ELSE toggl,
                         start_date, end_date)
    /\ UNCHANGED <<toggl_conf, now, todoist_vars>>

\* the clock advances
Tick ==
    /\ now < MaxTicks * TickSeconds
    /\ now' = now + TickSeconds
    /\ UNCHANGED <<toggl_conf, toggl, todoist_vars>>

\* the optional dates a caller passes
OptionalDays == {None} \cup {Some(d) : d \in Days}

(***************************************************************************)
(* Specifications                                                          *)
(***************************************************************************)
Init ==
    /\ conf = None
    /\ task = [t \in Tasks |-> NoTask]
    /\ toggl_conf = None
    /\ toggl = NoWrapper
    /\ now = 0

\* the call of the test module
TestKwargs == [token |-> "MyToken", duration_labels |-> TestLabels]

\* one task, every title
Next ==
    \/ configure_todoist(TestKwargs)
    \/ \E content \in Titles : Construct(1, content, <<"shallow">>)
    \/ \E val \in Titles : Assign(1, val)
    \/ \E lks \in LinkDicts : process_links(1, lks)

Spec == Init /\ [][Next]_vars

\* one task, every configuration and label list, the titles of ConfTitles
NextConf ==
    \/ \E kwargs \in Kwargs : configure_todoist(kwargs)
    \/ \E content \in ConfTitles, labels \in LabelLists : Construct(1, content, labels)
    \/ \E val \in ConfTitles : Assign(1, val)
    \/ \E lks \in LinkDicts : process_links(1, lks)

SpecConf == Init /\ [][NextConf]_vars

\* two tasks, the titles of PairTitles
NextPair ==
    \/ configure_todoist(TestKwargs)
    \/ \E t \in Tasks, content \in PairTitles : Construct(t, content, <<"shallow">>)
    \/ \E t \in Tasks, val \in PairTitles : Assign(t, val)
    \/ \E t \in Tasks : process_links(t, << <<<<"a">>, UrlX>> >>)

SpecPair == Init /\ [][NextPair]_vars

\* one task over the titles of the parser's corner cases
NextEdge ==
    \/ configure_todoist(TestKwargs)
    \/ \E content \in EdgeTitles : Construct(1, content, <<"shallow">>)
    \/ \E val \in EdgeTitles : Assign(1, val)
    \/ \E lks \in LinkDicts : process_links(1, lks)

SpecEdge == Init /\ [][NextEdge]_vars

\* the Toggl wrapper under a running clock
NextToggl ==
    \/ \E kwargs \in TogglKwargs : configure_toggl(kwargs)
    \/ TogglWrapper
    \/ \E start_date \in OptionalDays, end_date \in OptionalDays :
           get_time_tracker(start_date, end_date)
    \/ Tick

SpecToggl == Init /\ [][NextToggl]_vars

(***************************************************************************)
(* Duration labels                                                         *)
(***************************************************************************)
\* the minutes of the entries of a table whose key is one of the labels
LabelMinutes(labels, table) ==
    {table[i].minutes : i \in {k \in 1..Len(table) :
                                  \E n \in 1..Len(labels) : labels[n] = table[k].key}}

\* C1: the duration of every task is the greatest minutes among its labels
\* that are keys of the configured table (0 when there is none)
C1_DurationIsMaxLabelMinutes ==
    \A t \in Tasks :
        task[t].constructed /\ conf # None =>
            LET M == LabelMinutes(task[t].label_names, conf[1].duration_labels)
            IN  task[t].duration = Some(IF M = {} THEN 0 ELSE Greatest(M))

\* C2: a task none of whose labels is a key of the configured table has the
\* duration 0, an integer and not None, whatever was assigned to raw_content
C2_UnmatchedDurationIsZero ==
    \A t \in Tasks :
        (/\ task[t].constructed
         /\ conf # None
         /\ LabelMinutes(task[t].label_names, conf[1].duration_labels) = {})
            => task[t].duration = Some(0)

\* a task without labels under a non-empty table, after a title was assigned
\* to it through process_links
C2_Witness ==
    /\ task[1].constructed
    /\ task[1].label_names = <<>>
    /\ task[1].nproc > 0
    /\ conf # None
    /\ conf[1].duration_labels # <<>>
    /\ task[1].duration = Some(0)

\* C3: get_label_by_duration(m) is the label of the first entry whose minutes
\* are m, and None when no entry has these minutes
C3_FirstLabelWithMinutes ==
    conf # None =>
        \A m \in Minutes :
            LET table == conf[1].duration_labels
                r == get_label_by_duration(conf[1], m)
            IN  IF \E i \in 1..Len(table) : table[i].minutes = m
                THEN \E i \in 1..Len(table) :
                        /\ table[i].minutes = m
                        /\ \A j \in 1..(i - 1) : table[j].minutes # m
                        /\ r = Some(table[i].label)
                ELSE r = None

\* a table with two entries of 15 minutes and none of 5: the first label is
\* returned for 15 and None for 5
C3_Witness ==
    /\ conf # None
    /\ Len(conf[1].duration_labels) = 3
    /\ conf[1].duration_labels[2].minutes = 15
    /\ get_label_by_duration(conf[1], 15) = Some("quick")
    /\ get_label_by_duration(conf[1], 5) = None

\* C4: after configure_todoist(token=T, duration_labels=TABLE) with a non-empty
\* token, get_label_by_duration(m) returns the label of an entry of TABLE with
\* minutes m, for every m that TABLE has
C4_ConfiguredTableIsUsed ==
    [][\A kwargs \in Kwargs :
          (/\ configure_todoist(kwargs)
           /\ kwargs.token # ""
           /\ "duration_labels" \in DOMAIN kwargs)
              => \A i \in 1..Len(kwargs.duration_labels) :
                    \E j \in 1..Len(kwargs.duration_labels) :
                        /\ kwargs.duration_labels[j][2].minutes
                              = kwargs.duration_labels[i][2].minutes
                        /\ get_label_by_duration(conf'[1],
                                                 kwargs.duration_labels[i][2].minutes)
                              = Some(kwargs.duration_labels[j][2].label)]_vars

(***************************************************************************)
(* Content parsing                                                         *)
(***************************************************************************)
\* a task object whose last raw_content assignment returned
Parsed(t) == task[t].constructed /\ ~task[t].raised

\* C5: two tasks whose last assigned titles are equal have equal parsed
\* fields, whatever was assigned to them before
C5_ParsedFieldsFollowTitle ==
    \A t1, t2 \in Tasks :
        (Parsed(t1) /\ Parsed(t2) /\ task[t1].raw_content = task[t2].raw_content)
            => /\ task[t1].short_duration = task[t2].short_duration
               /\ task[t1].start_time = task[t2].start_time
               /\ task[t1].end_time = task[t2].end_time
               /\ task[t1].links = task[t2].links
               /\ task[t1].pure_content = task[t2].pure_content

\* C6: get_content() contains the Markdown text [anchor](url) of every stored
\* link
C6_RenderedContentHasEveryLink ==
    \A t \in Tasks :
        Parsed(t) =>
            \A n \in 1..Len(task[t].links) :
                Contains(get_content(task[t]),
                         get_todoist_link(task[t].links[n][1], task[t].links[n][2]))

\* C7: after an assignment that returned, raw_content is the assigned string
C7_RawContentIsVerbatim ==
    \A t \in Tasks : Parsed(t) => task[t].raw_content = task[t].assigned

\* a title with surrounding whitespace and a marker is read back unchanged
\* while the clean content is shorter
C7_Witness ==
    /\ Parsed(1)
    /\ task[1].assigned = TitleSpaceShort
    /\ task[1].raw_content = TitleSpaceShort
    /\ Len(task[1].pure_content) < Len(task[1].raw_content)

\* "spec"
AnchorSpec == <<"s", "p", "e", "c">>

\* "https://example.com/s"
UrlExample ==
    <<"h", "t", "t", "p", "s", ":", "/", "/", "e", "x", "a", "m", "p", "l", "e", ".", "c", "o", "m", "/", "s">>

\* "Write report spec"
ReportClaimed ==
    <<"W", "r", "i", "t", "e", " ", "r", "e", "p", "o", "r", "t", " ", "s", "p", "e", "c">>

\* "Write report  see spec"
ReportClean ==
    <<"W", "r", "i", "t", "e", " ", "r", "e", "p", "o", "r", "t", " ", " ", "s", "e", "e", " ", "s", "p", "e", "c">>

\* the fields the report title parses to, apart from the clean content
ReportFields(t) ==
    /\ task[t].short_duration = Some(<<"1", "5">>)
    /\ task[t].start_time = Some(<<9, 0>>)
    /\ task[t].end_time = Some(<<10, 0>>)
    /\ task[t].links = << <<AnchorSpec, UrlExample>> >>

\* C8 as claimed: the report title parses to short_duration "15", 09:00,
\* 10:00, the link (spec, url) and the clean content "Write report spec"
C8_ReportScenarioClaimed ==
    \A t \in Tasks :
        (Parsed(t) /\ task[t].raw_content = TitleReport)
            => ReportFields(t) /\ task[t].pure_content = ReportClaimed

\* C8: the report title parses to short_duration "15", 09:00, 10:00, the link
\* (spec, url) and the clean content "Write report  see spec"
C8_ReportScenario ==
    \A t \in Tasks :
        (Parsed(t) /\ task[t].raw_content = TitleReport)
            => ReportFields(t) /\ task[t].pure_content = ReportClean

\* the report title was assigned and parsed
C8_Witness == Parsed(1) /\ task[1].raw_content = TitleReport /\ task[1].links # <<>>

\* the title starts with "(", one or more digits, an optional plus and ")"
LeadingMarker(s) ==
    \E e \in 3..Len(s) :
        /\ s[1] = "("
        /\ \A k \in 2..(e - 1) : s[k] \in Digit
        /\ \/ s[e] = ")"
           \/ s[e] = "+" /\ e + 1 <= Len(s) /\ s[e + 1] = ")"

\* C9: a title without a leading marker has no short_duration, and its clean
\* content is the trimmed title after time-period removal and link replacement
C9_NoLeadingMarker ==
    \A t \in Tasks :
        (Parsed(t) /\ ~LeadingMarker(task[t].raw_content))
            => /\ task[t].short_duration = None
               /\ task[t].pure_content =
                      parse_links(parse_time_period(strip(task[t].raw_content),
                                                    None, None).content).content

\* a marker after leading whitespace stays in the clean content
C9_Witness ==
    /\ Parsed(1)
    /\ task[1].raw_content = TitleSpaceShort
    /\ task[1].short_duration = None
    /\ task[1].pure_content = <<"(", "1", "5", ")", " ", "a">>

\* a text of the shape H[H]:MM that is not a time of the 24-hour clock
OffTheClock(str) ==
    \/ Number(SubSeq(str, 1, IndexOf(str, ":", 1) - 1)) > 23
    \/ Number(SubSeq(str, IndexOf(str, ":", 1) + 1, Len(str))) > 59

\* the first time period the time-period step finds in a title has a half
\* that is off the clock
MalformedTimePeriod(val) ==
    LET result == TimePeriodFirst(parse_short_duration(val).content)
    IN  /\ result # None
        /\ \/ OffTheClock(SubSeq(result[1], 1, IndexOf(result[1], "-", 1) - 1))
           \/ OffTheClock(SubSeq(result[1], IndexOf(result[1], "-", 1) + 1,
                                  Len(result[1])))

\* C10: assigning a title with a malformed time period raises, in the
\* constructor too
C10_MalformedTimePeriodRaises ==
    \A t \in Tasks : MalformedTimePeriod(task[t].assigned) => task[t].raised

\* the constructor raised on a title with the hour 99
C10_Witness ==
    /\ ~task[1].constructed
    /\ task[1].raised
    /\ task[1].assigned = TitleBadFirst

\* the index of the ")" that closes a leading marker
MarkerClose(s) == Least({e \in 3..Len(s) : s[e] = ")"})

\* C11: a title that begins with a marker has the marker's digits, with the
\* plus if there is one, as short_duration, and exactly that one prefix is
\* removed: the clean content is the parse of everything after the marker
C11_OneLeadingMarkerRemoved ==
    \A t \in Tasks :
        (Parsed(t) /\ LeadingMarker(task[t].raw_content))
            => /\ task[t].short_duration =
                      Some(SubSeq(task[t].raw_content, 2,
                                  MarkerClose(task[t].raw_content) - 1))
               /\ task[t].pure_content =
                      parse_links(parse_time_period(
                          strip(SubSeq(task[t].raw_content,
                                       MarkerClose(task[t].raw_content) + 1,
                                       Len(task[t].raw_content))),
                          None, None).content).content

\* "(30+) b (30+)": the plus is kept and the later marker stays
C11_Witness ==
    /\ Parsed(1)
    /\ task[1].raw_content = TitlePlusAgain
    /\ task[1].short_duration = Some(<<"3", "0", "+">>)
    /\ task[1].pure_content = <<"b", " ", "(", "3", "0", "+", ")">>

\* the text the time-period step of a title works on
PeriodText(val) == parse_short_duration(val).content

\* the text has a time period and another one after it
SeveralPeriods(s) ==
    /\ TimePeriodSearch(s, 1) # 0
    /\ TimePeriodSearch(s, TimePeriodSearch(s, 1)
                           + TimePeriodLen(s, TimePeriodSearch(s, 1))) # 0

\* the text with the span of its first time period cut out
WithoutFirstPeriod(s) ==
    SubSeq(s, 1, TimePeriodSearch(s, 1) - 1)
        \o SubSeq(s, TimePeriodSearch(s, 1) + TimePeriodLen(s, TimePeriodSearch(s, 1)),
                  Len(s))

\* C12: of several time periods in a title the first one sets start_time and
\* end_time, and only that occurrence is deleted: every later time period,
\* one with the same text included, is still in the clean content
C12_OnlyFirstPeriodRemoved ==
    \A t \in Tasks :
        (Parsed(t) /\ SeveralPeriods(PeriodText(task[t].raw_content)))
            => /\ task[t].start_time =
                      parse_time_period(PeriodText(task[t].raw_content),
                                        None, None).start_time
               /\ task[t].end_time =
                      parse_time_period(PeriodText(task[t].raw_content),
                                        None, None).end_time
               /\ task[t].pure_content =
                      parse_links(strip(WithoutFirstPeriod(
                          PeriodText(task[t].raw_content)))).content

\* "(http://" and "(https://"
OpenHttp == <<"(", "h", "t", "t", "p", ":", "/", "/">>
OpenHttps == <<"(", "h", "t", "t", "p", "s", ":", "/", "/">>

\* s[j] is the "]" of a "[anchor]" whose "(" and scheme of length n follow and
\* whose url is closed by a ")"
LinkClosesAfter(s, j, n) ==
    \E k \in (j + n + 2)..Len(s) :
        /\ s[k] = ")"
        /\ \A m \in (j + n + 1)..(k - 1) : s[m] # ")"

\* the text has a substring [anchor](http://...) or [anchor](https://...)
HasLinkSyntax(s) ==
    \E i \in 1..Len(s) :
        /\ s[i] = "["
        /\ \E j \in (i + 2)..Len(s) :
               /\ s[j] = "]"
               /\ \A m \in (i + 1)..(j - 1) : s[m] # "]"
               /\ \/ StartsAt(s, OpenHttp, j + 1) /\ LinkClosesAfter(s, j, Len(OpenHttp))
                  \/ StartsAt(s, OpenHttps, j + 1) /\ LinkClosesAfter(s, j, Len(OpenHttps))

\* C13: the clean content of a parsed title has no Markdown link syntax left
\* and no leading or trailing whitespace
C13_CleanContentHasNoLinkSyntax ==
    \A t \in Tasks :
        Parsed(t) => /\ ~HasLinkSyntax(task[t].pure_content)
                     /\ strip(task[t].pure_content) = task[t].pure_content

\* the url begins with http:// or https://
HttpUrl(url) ==
    \/ StartsAt(url, SubSeq(OpenHttp, 2, Len(OpenHttp)), 1)
    \/ StartsAt(url, SubSeq(OpenHttps, 2, Len(OpenHttps)), 1)

\* C14: a bracket and parenthesis pair is a link only if its url begins with
\* http:// or https://: every recorded url does, and a title without such a
\* pair records no link and keeps its text
C14_OnlyHttpLinks ==
    \A t \in Tasks :
        Parsed(t)
            => /\ \A n \in 1..Len(task[t].links) : HttpUrl(task[t].links[n][2])
               /\ ~HasLinkSyntax(task[t].raw_content)
                      => /\ task[t].links = <<>>
                         /\ task[t].pure_content =
                                strip(parse_time_period(PeriodText(task[t].raw_content),
                                                        None, None).content)

\* the text the link step of a title works on
LinksInput(val) == parse_time_period(PeriodText(val), None, None).content

\* the text from i on with the span of every link match replaced by the anchor
\* of that match, the matches being taken left to right without overlap
RECURSIVE AnchorsFrom(_, _)
AnchorsAfter(s, i, j, m) == SubSeq(s, i, j - 1) \o m.text \o AnchorsFrom(s, m.last + 1)

AnchorsAt(s, i, j) == AnchorsAfter(s, i, j, LinkMatchAt(s, j))

AnchorsIn(s, i, S) == IF S = {} THEN SubSeq(s, i, Len(s)) ELSE AnchorsAt(s, i, Least(S))

AnchorsFrom(s, i) == AnchorsIn(s, i, {j \in i..Len(s) : LinkMatchAt(s, j).ok})

\* C15: links has one (anchor, url) entry per link match, left to right,
\* repeated anchors and repeated links included, and each matched substring is
\* replaced in the text by exactly its anchor
C15_EachMatchBecomesItsAnchor ==
    \A t \in Tasks :
        Parsed(t)
            => /\ task[t].links = LinksFindall(LinksInput(task[t].raw_content), 1)
               /\ task[t].pure_content =
                      strip(AnchorsFrom(LinksInput(task[t].raw_content), 1))

\* s with its first occurrence of old, at i, replaced by new (s for i = 0)
ReplaceFirstAt(s, old, new, i) ==
    IF i = 0 THEN s
    ELSE SubSeq(s, 1, i - 1) \o new \o SubSeq(s, i + Len(old), Len(s))

\* the text with, for each of links[n..] in turn, the first occurrence of the
\* anchor rewritten into [anchor](url); an anchor that does not occur is skipped
RECURSIVE FirstToLinks(_, _, _)
FirstToLinks(content, lks, n) ==
    IF n > Len(lks) THEN content
    ELSE FirstToLinks(ReplaceFirstAt(content, lks[n][1],
                                     get_todoist_link(lks[n][1], lks[n][2]),
                                     find(content, lks[n][1], 1)),
                      lks, n + 1)

\* C16: get_content rewrites, for each stored link, only the first occurrence
\* of the anchor in the clean content; other occurrences stay bare
C16_FirstOccurrenceRendered ==
    \A t \in Tasks :
        Parsed(t) => get_content(task[t])
                         = FirstToLinks(task[t].pure_content, task[t].links, 1)

(***************************************************************************)
(* Assignment and process_links                                            *)
(***************************************************************************)
\* the title of a task object and the fields parsed from it
ParsedFields(self) ==
    <<self.raw_content, self.pure_content, self.short_duration, self.start_time,
      self.end_time, self.links>>

\* C17: an assignment to raw_content that raises leaves raw_content and the
\* parsed fields as they were before the assignment, so that the parsed fields
\* stay the parse of the current raw_content
C17_RaisingAssignmentKeepsFields ==
    [][\A t \in Tasks, val \in Titles :
          (Assign(t, val) /\ task'[t].raised)
              => ParsedFields(task'[t]) = ParsedFields(task[t])]_vars

\* C18: process_links only adds link markup: on a task whose title is parsed
\* the clean content stays as it was, and every key of the dictionary that
\* occurs in the title is stored afterwards with its url in the link list
C18_ProcessLinksOnlyAddsMarkup ==
    [][\A t \in Tasks, lks \in LinkDicts :
          (Parsed(t) /\ process_links(t, lks))
              => /\ ~task'[t].raised
                 /\ task'[t].pure_content = task[t].pure_content
                 /\ \A n \in 1..Len(lks) :
                        Contains(task[t].raw_content, lks[n][1])
                            => \E m \in 1..Len(task'[t].links) :
                                   task'[t].links[m] = lks[n]]_vars

(***************************************************************************)
(* Toggl wrapper                                                           *)
(***************************************************************************)
\* the entries of the detailed report for the dates a call asked for: the
\* start today by default, the end no earlier than the start
RequestedEntries(start_date, end_date) ==
    TimeEntries(getDetailedReport(DefaultStart(start_date),
                                  ClampedEnd(DefaultStart(start_date), end_date)))

\* C19: the entries a get_time_tracker call returns are those of the detailed
\* report for the date range of that same call, whatever was asked for before
C19_ReturnedEntriesAreOfRequestedRange ==
    toggl.called # None
        => toggl.returned = RequestedEntries(toggl.called[1][1], toggl.called[1][2])

\* C20: a time entry that ends at or after its start, on the same day, has as
\* minutes the elapsed time from start to end rounded to whole minutes, which
\* is 0 when start equals end
C20_MinutesAreElapsedTime ==
    \A i \in 1..Len(toggl.time_entries) :
        (/\ toggl.time_entries[i].start[1] = toggl.time_entries[i].end[1]
         /\ toggl.time_entries[i].end_date >= toggl.time_entries[i].start_date)
            => toggl.time_entries[i].minutes
                   = round_minutes(toggl.time_entries[i].end_date
                                   - toggl.time_entries[i].start_date)

====
